---- MODULE Spec2Model ----
(***************************************************************************)
(* LifeOps v1: the LifeState model (lifeops/core/life_state.py), the       *)
(* FocusNeuron suggestion generator (lifeops/neurons/focus_neuron.py) and  *)
(* the ActionArbiterLife with the test-mode tick loop (run_lifeops_v1.py). *)
(*                                                                         *)
(* Time is in whole seconds since the start of the run.  An Optional[T]    *)
(* value is a sequence of length at most one: None is <<>>, a value v is   *)
(* <<v>>.  A float confidence c is the integer 100*c.                      *)
(***************************************************************************)
EXTENDS Integers, Sequences, FiniteSets, TLC

VARIABLES
    clock,                     \* datetime.now(): the wall clock
    state,                     \* the LifeState
    candidates,                \* ActionArbiterLife._candidates
    suggested_action,          \* run_test_mode: suggested_action
    focus_block_started,       \* run_test_mode: focus_block_started
    focus_block_duration_min,  \* run_test_mode: focus_block_duration_min
    tick,                      \* run_test_mode: tick
    duration_seconds,          \* run_test_mode: duration_seconds
    pc,                        \* "loop" inside the tick loop, "done" after it
    summary,                   \* the focus sessions printed after the loop
    lastTick,                  \* what the last tick did (observation only)
    ret,                       \* the last value returned by a direct call
    poolBefore,                \* the pool a direct decide call was made on
    accepts,                   \* how many decisions were accepted (history)
    bindings                   \* the binding ids decide has given (history)

vars == <<clock, state, candidates, suggested_action, focus_block_started,
          focus_block_duration_min, tick, duration_seconds, pc, summary,
          lastTick, ret, poolBefore, accepts, bindings>>

----------------------------------------------------------------------------
(* Optional values *)

None == <<>>

Some(v) == <<v>>

\* Python truthiness of an Optional[str]: None and "" are falsy.
Truthy(o) == o # None /\ o[1] # ""

----------------------------------------------------------------------------
(* Bounds of the model *)

\* run_test_mode(duration_seconds): the length of the longest run, in seconds.
MaxDuration == 2700

\* The length of a short run, which ends within MaxTicks passes of the loop.
ShortDuration == 20

\* The most passes of the tick loop that are followed.
MaxTicks == 6

\* The longest recent_sessions list built by direct calls.
MaxSessions == 2

\* The largest pool built by direct request_action calls.
MaxPool == 3

----------------------------------------------------------------------------
(* Program constants *)

SecondsPerMinute == 60

default_block_min == 25

short_block_min == 15

micro_block_min == 5

min_gap_between_focus_min == 15

SleepSeconds == 5

\* What one pass of the loop can take: the sleep of 5 s alone, or the sleep
\* and a wait for the user's answer or a suspension of the process (just
\* under 5 minutes, 5 minutes, 15 minutes).
ClockSteps == {SleepSeconds, 295, 300, 900}

----------------------------------------------------------------------------
(* lifeops/core/life_state.py *)

RecentSession(type, project, duration_min, completed, ended_at) ==
    [type |-> type, project |-> project, duration_min |-> duration_min,
     completed |-> completed, ended_at |-> ended_at]

SceneState ==
    [scene_type |-> "home_office",
     objects |-> <<"laptop", "notebook", "coffee_mug">>,
     people_present |-> "solo",
     text_snippets |-> <<>>,
     risk_flags |-> <<"indoors", "not_driving">>]

LifeState(timestamp, mode, primary_project, recent_sessions, energy_hint) ==
    [user_id |-> "tyler",
     timestamp |-> timestamp,
     mode |-> mode,
     time_block |-> "afternoon",
     location_hint |-> "home_office",
     scene |-> SceneState,
     primary_project |-> primary_project,
     secondary_projects |-> <<>>,
     open_loops |-> <<>>,
     recent_sessions |-> recent_sessions,
     energy_hint |-> energy_hint,
     preference_profile |-> [nudges_per_hour_max |-> 4]]

\* The key of max() in last_session_of_type: s.ended_at or self.timestamp.
SessionKey(st, s) == IF s.ended_at # None THEN s.ended_at[1] ELSE st.timestamp

\* Python's max(seq, key): the first element whose key is maximal.
RECURSIVE MaxByKey(_, _)
MaxByKey(st, seq) ==
    IF Len(seq) = 1 THEN seq[1]
    ELSE LET best == MaxByKey(st, SubSeq(seq, 1, Len(seq) - 1))
             x == seq[Len(seq)]
         IN IF SessionKey(st, x) > SessionKey(st, best) THEN x ELSE best

\* A last_session_of_type that forgets to filter by the session type.
last_session_of_any_type(st, session_type) ==
    IF st.recent_sessions = <<>> THEN None
    ELSE Some(MaxByKey(st, st.recent_sessions))

last_session_of_type(st, session_type) ==
    LET cands == SelectSeq(st.recent_sessions, LAMBDA s : s.type = session_type)
    IN IF cands = <<>> THEN None ELSE Some(MaxByKey(st, cands))

minutes_since_last_session(st, session_type) ==
    LET last == last_session_of_type(st, session_type)
    IN IF last = None \/ last[1].ended_at = None
       THEN None
       ELSE Some((st.timestamp - last[1].ended_at[1]) \div SecondsPerMinute)

\* A refresh that builds the new state with a fresh recent_sessions list.
with_fresh_sessions(st, ts) ==
    [user_id |-> st.user_id,
     timestamp |-> ts,
     mode |-> st.mode,
     time_block |-> st.time_block,
     location_hint |-> st.location_hint,
     scene |-> st.scene,
     primary_project |-> st.primary_project,
     secondary_projects |-> st.secondary_projects,
     open_loops |-> st.open_loops,
     recent_sessions |-> <<>>,
     energy_hint |-> st.energy_hint,
     preference_profile |-> st.preference_profile]

\* A refresh that keeps the old timestamp.
with_stale_timestamp(st, ts) == st

with_updated_timestamp(st, ts) ==
    [user_id |-> st.user_id,
     timestamp |-> ts,
     mode |-> st.mode,
     time_block |-> st.time_block,
     location_hint |-> st.location_hint,
     scene |-> st.scene,
     primary_project |-> st.primary_project,
     secondary_projects |-> st.secondary_projects,
     open_loops |-> st.open_loops,
     recent_sessions |-> st.recent_sessions,
     energy_hint |-> st.energy_hint,
     preference_profile |-> st.preference_profile]

----------------------------------------------------------------------------
(* lifeops/neurons/focus_neuron.py *)

NeuronSuggestion(neuron, priority, suggestion_type, text, minutes, project, confidence) ==
    [neuron |-> neuron, priority |-> priority,
     suggestion_type |-> suggestion_type, text |-> text,
     expected_duration_min |-> minutes,
     project |-> project, confidence |-> confidence]

\* str.lower() on the energy hints of the model.
Lower(s) ==
    CASE s = "LOW" -> "low"
      [] s = "Medium" -> "medium"
      [] OTHER -> s

\* (state.energy_hint or "unknown").lower()
Energy(st) ==
    IF Truthy(st.energy_hint) THEN Lower(st.energy_hint[1]) ELSE "unknown"

\* Tiers with the medium tier given the confidence of the default tier.
TierMediumAsDefault(energy) ==
    IF energy = "low"
    THEN [block_min |-> micro_block_min, priority |-> "MEDIUM",
          confidence |-> 70, task_verb |-> "Take a small bite out of"]
    ELSE IF energy = "medium"
    THEN [block_min |-> short_block_min, priority |-> "HIGH",
          confidence |-> 85, task_verb |-> "Make solid progress on"]
    ELSE [block_min |-> default_block_min, priority |-> "HIGH",
          confidence |-> 85, task_verb |-> "Push forward on"]

\* Tiers with the block lengths of low and medium energy taken for each other.
TierLengthsSwapped(energy) ==
    IF energy = "low"
    THEN [block_min |-> short_block_min, priority |-> "MEDIUM",
          confidence |-> 70, task_verb |-> "Take a small bite out of"]
    ELSE IF energy = "medium"
    THEN [block_min |-> micro_block_min, priority |-> "HIGH",
          confidence |-> 80, task_verb |-> "Make solid progress on"]
    ELSE [block_min |-> default_block_min, priority |-> "HIGH",
          confidence |-> 85, task_verb |-> "Push forward on"]

\* The energy tier: block length, priority, confidence, phrasing verb.
Tier(energy) ==
    IF energy = "low"
    THEN [block_min |-> micro_block_min, priority |-> "MEDIUM",
          confidence |-> 70, task_verb |-> "Take a small bite out of"]
    ELSE IF energy = "medium"
    THEN [block_min |-> short_block_min, priority |-> "HIGH",
          confidence |-> 80, task_verb |-> "Make solid progress on"]
    ELSE [block_min |-> default_block_min, priority |-> "HIGH",
          confidence |-> 85, task_verb |-> "Push forward on"]

\* The f-string of suggest: the verb, the project and the minutes it names.
Text(task_verb, project, block_min) ==
    [verb |-> task_verb, project |-> project, minutes |-> block_min]

\* A gap test that also holds at exactly the minimum gap.
TooSoonInclusive(minutes_since) ==
    minutes_since # None /\ minutes_since[1] <= min_gap_between_focus_min

\* The gap test of suggest: "we just finished a focus session".
TooSoon(minutes_since) ==
    minutes_since # None /\ minutes_since[1] < min_gap_between_focus_min

\* A suggest without the test of the mode.
suggest_in_any_mode(st) ==
    IF ~Truthy(st.primary_project) THEN None
    ELSE IF TooSoon(minutes_since_last_session(st, "focus")) THEN None
    ELSE LET project == st.primary_project
             t == Tier(Energy(st))
         IN Some(NeuronSuggestion("FocusNeuron", t.priority, "focus_block",
                                  Text(t.task_verb, project[1], t.block_min),
                                  t.block_min, project, t.confidence))

suggest(st) ==
    IF st.mode # "work_deep" THEN None
    ELSE IF ~Truthy(st.primary_project) THEN None
    ELSE IF TooSoon(minutes_since_last_session(st, "focus")) THEN None
    ELSE LET project == st.primary_project
             t == Tier(Energy(st))
         IN Some(NeuronSuggestion("FocusNeuron", t.priority, "focus_block",
                                  Text(t.task_verb, project[1], t.block_min),
                                  t.block_min, project, t.confidence))

----------------------------------------------------------------------------
(* run_lifeops_v1.py: ActionArbiterLife *)

SuggestedAction(binding_id, suggestion) ==
    [binding_id |-> binding_id, suggestion |-> suggestion]

\* PRIORITY_RANK.get(priority, 0)
PRIORITY_RANK(priority) ==
    CASE priority = "HIGH" -> 3
      [] priority = "MEDIUM" -> 2
      [] priority = "LOW" -> 1
      [] OTHER -> 0

\* A sort key with its two parts swapped: confidence before priority.
SortKeyConfidenceFirst(s) == <<s.confidence, PRIORITY_RANK(s.priority)>>

\* The sort key of decide, a Python tuple.
SortKey(s) == <<PRIORITY_RANK(s.priority), s.confidence>>

\* An order that also holds between equal keys: a <= b.
KeyLessOrEqual(a, b) == a[1] < b[1] \/ (a[1] = b[1] /\ a[2] <= b[2])

\* Python's tuple order on two sort keys: a < b.
KeyLess(a, b) == a[1] < b[1] \/ (a[1] = b[1] /\ a[2] < b[2])

\* One element put into a list sorted in descending order, behind every
\* element whose key is not smaller (the sort is stable).
RECURSIVE InsertDesc(_, _)
InsertDesc(sorted, x) ==
    IF sorted = <<>> THEN <<x>>
    ELSE IF KeyLess(SortKey(sorted[1]), SortKey(x))
         THEN <<x>> \o sorted
         ELSE <<sorted[1]>> \o InsertDesc(Tail(sorted), x)

\* sorted(candidates, key=..., reverse=True)
RECURSIVE SortedDesc(_)
SortedDesc(seq) ==
    IF seq = <<>> THEN <<>>
    ELSE InsertDesc(SortedDesc(SubSeq(seq, 1, Len(seq) - 1)), seq[Len(seq)])

\* A binding id built from the suggestion's kind alone.
BindingIdOfKind(timestamp, suggestion_type) == <<0, suggestion_type>>

\* f"{state.timestamp.isoformat()}_{best.suggestion_type}": isoformat holds
\* no underscore, so the string is the pair of its two parts.
BindingId(timestamp, suggestion_type) == <<timestamp, suggestion_type>>

request_action(pool, suggestion) == Append(pool, suggestion)

\* A decide that takes only the winner out of the pool.
decide_removes_winner_only(pool, st) ==
    IF pool = <<>>
    THEN [result |-> None, pool |-> pool]
    ELSE LET best == SortedDesc(pool)[1]
         IN [result |-> Some(SuggestedAction(
                           BindingId(st.timestamp, best.suggestion_type), best)),
             pool |-> SelectSeq(pool, LAMBDA s : s # best)]

\* A decide that builds its SuggestedAction without looking at the pool
\* first: on an empty pool it returns a binding that holds no suggestion.
decide_without_empty_check(pool, st) ==
    IF pool = <<>>
    THEN [result |-> Some(SuggestedAction(BindingId(st.timestamp, ""), None)),
          pool |-> pool]
    ELSE LET best == SortedDesc(pool)[1]
         IN [result |-> Some(SuggestedAction(
                           BindingId(st.timestamp, best.suggestion_type), best)),
             pool |-> <<>>]

\* A decide that does not clear the pool.
decide_keeps_pool(pool, st) ==
    IF pool = <<>>
    THEN [result |-> None, pool |-> pool]
    ELSE LET best == SortedDesc(pool)[1]
         IN [result |-> Some(SuggestedAction(
                           BindingId(st.timestamp, best.suggestion_type), best)),
             pool |-> pool]

\* decide: the value returned and the pool left behind.
decide(pool, st) ==
    IF pool = <<>>
    THEN [result |-> None, pool |-> pool]
    ELSE LET best == SortedDesc(pool)[1]
         IN [result |-> Some(SuggestedAction(
                           BindingId(st.timestamp, best.suggestion_type), best)),
             pool |-> <<>>]

----------------------------------------------------------------------------
(* run_lifeops_v1.py: run_test_mode *)

\* What the calendar, the scene and the energy signal can hand to the seed.
Modes == {"work_deep", "walking"}

Projects == {None, Some(""), Some("Project Horizon")}

EnergyHints == {None, Some("low"), Some("medium"), Some("high"),
                Some("unknown"), Some("LOW")}

\* The energy hints of a run of the loop.
LoopEnergyHints == {Some("low"), Some("medium"), Some("high")}

\* The lengths of run that run_test_mode is called with.
Durations == {ShortDuration, MaxDuration}

\* end = start + timedelta(seconds=duration_seconds), with start = 0.
End == duration_seconds

\* A loop condition that lets a pass begin at the deadline: now <= end.
AtOrBeforeEnd(now) == now <= End

\* The loop condition: datetime.now() < end.
BeforeEnd(now) == now < End

\* The record of a tick that has not run.
NoTick ==
    [at |-> None, in_progress |-> FALSE, invoked |-> FALSE, proposal |-> None,
     submitted |-> 0, decision |-> None, asked |-> 0, accepted |-> FALSE,
     completed |-> FALSE]

\* The neuron asked on every tick, a focus block running or not.
AlwaysPropose(started) == TRUE

\* if not focus_block_started: the neuron is asked for a suggestion.
NoActiveBlock(started) == started = None

\* if decision and not focus_block_started: the decision goes to the user.
ShouldAsk(decision, started) == decision # None /\ started = None

\* A focus block started whatever the user's answer is.
StartedWhateverAnswer(ask, accepted, now, started) ==
    IF ask THEN Some(now) ELSE started

\* if accepted: focus_block_started = now, else it is left as it was.
StartedAfterAnswer(ask, accepted, now, started) ==
    IF ask /\ accepted THEN Some(now) ELSE started

\* A completion test that is strict: elapsed_min > focus_block_duration_min.
BlockDoneStrict(now, started, duration_min) ==
    (now - started) > duration_min * SecondsPerMinute

\* elapsed_min >= focus_block_duration_min, elapsed_min being seconds / 60.0
BlockDone(now, started, duration_min) ==
    (now - started) >= duration_min * SecondsPerMinute

\* A completion that leaves focus_block_started as it was.
StartedKeptAfterCompletion(complete, started) == started

\* The reset of a completed block: focus_block_started = None.
StartedAfterCompletion(complete, started) ==
    IF complete THEN None ELSE started

\* The session appended when the focus block completes.
CompletedSession(st, duration_min, now) ==
    RecentSession("focus", st.primary_project, duration_min, TRUE, Some(now))

\* The focus sessions of the summary.
FocusSessions(st) == SelectSeq(st.recent_sessions, LAMBDA s : s.type = "focus")

Init ==
    /\ clock = 0
    /\ duration_seconds \in Durations
    /\ \E m \in Modes, p \in Projects, e \in LoopEnergyHints :
          state = LifeState(0, m, p, <<>>, e)
    /\ candidates = <<>>
    /\ suggested_action = None
    /\ focus_block_started = None
    /\ focus_block_duration_min = None
    /\ tick = 0
    /\ pc = "loop"
    /\ summary = None
    /\ lastTick = NoTick
    /\ ret = None
    /\ poolBefore = None
    /\ accepts = 0
    /\ bindings = <<>>

\* One pass of the while loop: lines 133-187.  accepted is the answer of
\* hud.ask_yes_no, step the time the pass takes up to the next reading of
\* the clock.
TickBody(accepted, step) ==
    LET now == clock
        st1 == with_updated_timestamp(state, now)
        in_progress == focus_block_started # None
        invoked == NoActiveBlock(focus_block_started)
        suggestion == IF invoked THEN suggest(st1) ELSE None
        pool1 == IF suggestion # None
                 THEN request_action(candidates, suggestion[1])
                 ELSE candidates
        d == decide(pool1, st1)
        decision == d.result
        ask == ShouldAsk(decision, focus_block_started)
        started1 == StartedAfterAnswer(ask, accepted, now, focus_block_started)
        duration1 == IF ask /\ accepted
                     THEN Some(decision[1].suggestion.expected_duration_min)
                     ELSE focus_block_duration_min
        action1 == IF ask
                   THEN (IF accepted THEN decision ELSE None)
                   ELSE suggested_action
        complete == /\ started1 # None
                    /\ duration1 # None
                    /\ BlockDone(now, started1[1], duration1[1])
    IN /\ state' = IF complete
                   THEN [st1 EXCEPT !.recent_sessions =
                            Append(@, CompletedSession(st1, duration1[1], now))]
                   ELSE st1
       /\ candidates' = d.pool
       /\ focus_block_started' = StartedAfterCompletion(complete, started1)
       /\ focus_block_duration_min' = IF complete THEN None ELSE duration1
       /\ suggested_action' = IF complete THEN None ELSE action1
       /\ lastTick' = [at |-> Some(now),
                       in_progress |-> in_progress,
                       invoked |-> invoked,
                       proposal |-> suggestion,
                       submitted |-> IF suggestion # None THEN 1 ELSE 0,
                       decision |-> decision,
                       asked |-> IF ask THEN 1 ELSE 0,
                       accepted |-> ask /\ accepted,
                       completed |-> complete]
       /\ accepts' = IF ask /\ accepted THEN accepts + 1 ELSE accepts
       /\ bindings' = IF decision # None
                      THEN Append(bindings, decision[1].binding_id)
                      ELSE bindings
       /\ clock' = clock + step

Tick ==
    /\ pc = "loop"
    /\ BeforeEnd(clock)
    /\ tick < MaxTicks
    /\ tick' = tick + 1
    /\ \E accepted \in BOOLEAN, step \in ClockSteps : TickBody(accepted, step)
    /\ UNCHANGED <<duration_seconds, pc, summary, ret, poolBefore>>

\* The loop condition fails: the summary is printed and the run is over.
Halt ==
    /\ pc = "loop"
    /\ ~BeforeEnd(clock)
    /\ pc' = "done"
    /\ summary' = Some(FocusSessions(state))
    /\ UNCHANGED <<clock, state, candidates, suggested_action,
                   focus_block_started, focus_block_duration_min, tick,
                   duration_seconds, lastTick, ret, poolBefore, accepts,
                   bindings>>

Next == Tick \/ Halt

Spec == Init /\ [][Next]_vars

\* The runs followed to their end: those whose passes are long enough for
\* the deadline to be reached within MaxTicks passes (every pass of a short
\* run, the 900 s passes of a long one).
RunSteps == {s \in ClockSteps : s * MaxTicks >= duration_seconds}

\* One pass of the loop in such a run; tick stays below MaxTicks by the
\* choice of RunSteps.
TickToEnd ==
    /\ pc = "loop"
    /\ BeforeEnd(clock)
    /\ tick' = tick + 1
    /\ \E accepted \in BOOLEAN, step \in RunSteps : TickBody(accepted, step)
    /\ UNCHANGED <<duration_seconds, pc, summary, ret, poolBefore>>

NextToEnd == TickToEnd \/ Halt

\* The loop keeps running: hud.ask_yes_no returns, time.sleep(5) returns and
\* the clock advances, so a pass or the exit that can be taken is taken.
FairSpec == Init /\ [][NextToEnd]_vars /\ WF_vars(NextToEnd)

----------------------------------------------------------------------------
(* Direct calls on an ActionArbiterLife: request_action and decide *)

\* The suggestions handed to request_action: every priority (one of them no
\* key of PRIORITY_RANK), three confidences, two neurons.
Suggestions ==
    { NeuronSuggestion(n, pr[1], "focus_block",
                       Text("Push forward on", "Project Horizon", short_block_min),
                       short_block_min, Some("Project Horizon"), pr[2]) :
        n \in {"FocusNeuron", "WalkNeuron"},
        pr \in ({"HIGH", "MEDIUM", "LOW", "URGENT"} \X {10, 90})
                 \cup {<<"HIGH", 80>>} }

\* The value a direct call returned.
Returned(op, arg, value) == [op |-> op, arg |-> arg, value |-> value]

\* The variables of run_test_mode, which direct calls leave alone.
loopVars == <<clock, suggested_action, focus_block_started,
              focus_block_duration_min, tick, duration_seconds, summary,
              lastTick, accepts, bindings>>

InitLoopVars ==
    /\ clock = 0
    /\ suggested_action = None
    /\ focus_block_started = None
    /\ focus_block_duration_min = None
    /\ tick = 0
    /\ duration_seconds = MaxDuration
    /\ summary = None
    /\ lastTick = NoTick
    /\ accepts = 0
    /\ bindings = <<>>

InitArbiter ==
    /\ InitLoopVars
    /\ state = LifeState(0, "work_deep", Some("Project Horizon"), <<>>,
                         Some("medium"))
    /\ candidates = <<>>
    /\ pc = "new"
    /\ ret = None
    /\ poolBefore = None

RequestAction ==
    /\ Len(candidates) < MaxPool
    /\ \E s \in Suggestions : candidates' = request_action(candidates, s)
    /\ pc' = "request_action"
    /\ ret' = None
    /\ poolBefore' = None
    /\ UNCHANGED <<state, loopVars>>

Decide ==
    /\ candidates' = decide(candidates, state).pool
    /\ ret' = Some(Returned("decide", None, decide(candidates, state).result))
    /\ poolBefore' = Some(candidates)
    /\ pc' = "decide"
    /\ UNCHANGED <<state, loopVars>>

NextArbiter == RequestAction \/ Decide

SpecArbiter == InitArbiter /\ [][NextArbiter]_vars

----------------------------------------------------------------------------
(* Direct calls on a LifeState and on FocusNeuron.suggest *)

\* The timestamps and end timestamps of the states built by direct calls.
LifeTimes == {0, 300, 900, 1199}

SessionTypes == {"focus", "workout"}

\* The sessions a recent_sessions list is built from; a session without an
\* end timestamp is one that is not completed.
Sessions ==
    { RecentSession(ty, Some("Project Horizon"), short_block_min, e # None, e) :
        ty \in SessionTypes, e \in {None} \cup {Some(t) : t \in LifeTimes} }

InitLife ==
    /\ InitLoopVars
    /\ \E ts \in LifeTimes, m \in Modes, p \in Projects, e \in EnergyHints :
          state = LifeState(ts, m, p, <<>>, e)
    /\ candidates = <<>>
    /\ pc = "new"
    /\ ret = None
    /\ poolBefore = None

AppendSession ==
    /\ Len(state.recent_sessions) < MaxSessions
    /\ \E s \in Sessions :
          state' = [state EXCEPT !.recent_sessions = Append(@, s)]
    /\ pc' = "append"
    /\ ret' = None
    /\ UNCHANGED <<candidates, poolBefore, loopVars>>

WithUpdatedTimestamp ==
    /\ \E ts \in LifeTimes : state' = with_updated_timestamp(state, ts)
    /\ pc' = "with_updated_timestamp"
    /\ ret' = None
    /\ UNCHANGED <<candidates, poolBefore, loopVars>>

MinutesSinceLastSession ==
    /\ \E ty \in SessionTypes :
          ret' = Some(Returned("minutes_since_last_session", ty,
                               minutes_since_last_session(state, ty)))
    /\ pc' = "minutes_since_last_session"
    /\ UNCHANGED <<state, candidates, poolBefore, loopVars>>

Suggest ==
    /\ ret' = Some(Returned("suggest", "", suggest(state)))
    /\ pc' = "suggest"
    /\ UNCHANGED <<state, candidates, poolBefore, loopVars>>

NextLife ==
    AppendSession \/ WithUpdatedTimestamp \/ MinutesSinceLastSession \/ Suggest

SpecLife == InitLife /\ [][NextLife]_vars

----------------------------------------------------------------------------
(* The claims about the arbiter, checked under SpecArbiter *)

\* The priority rank as the documentation states it.
RankOf(priority) ==
    IF priority = "HIGH" THEN 3
    ELSE IF priority = "MEDIUM" THEN 2
    ELSE IF priority = "LOW" THEN 1
    ELSE 0

\* Suggestion a ranks at least as high as suggestion b: a higher priority
\* rank, or the same rank and a confidence that is not lower.
RanksAtLeast(a, b) ==
    \/ RankOf(a.priority) > RankOf(b.priority)
    \/ /\ RankOf(a.priority) = RankOf(b.priority)
       /\ a.confidence >= b.confidence

\* A direct decide call has just returned.
DecideReturned == pc = "decide" /\ ret # None /\ poolBefore # None

\* C1: decide on a non-empty pool returns one of the pooled suggestions, and
\* its (priority_rank, confidence) key is at least that of every pooled
\* suggestion: priority dominates confidence, and among equal priorities the
\* higher confidence wins.
C1_DecideReturnsTopRanked ==
    (DecideReturned /\ poolBefore[1] # <<>>) =>
        /\ ret[1].value # None
        /\ \E i \in 1..Len(poolBefore[1]) :
              ret[1].value[1].suggestion = poolBefore[1][i]
        /\ \A i \in 1..Len(poolBefore[1]) :
              RanksAtLeast(ret[1].value[1].suggestion, poolBefore[1][i])

\* C1 witness: a LOW suggestion of confidence 0.9 was submitted before a HIGH
\* one of confidence 0.1, and decide returned the HIGH one.
C1_Witness ==
    /\ DecideReturned
    /\ Len(poolBefore[1]) = 2
    /\ poolBefore[1][1].priority = "LOW" /\ poolBefore[1][1].confidence = 90
    /\ poolBefore[1][2].priority = "HIGH" /\ poolBefore[1][2].confidence = 10
    /\ ret[1].value # None
    /\ ret[1].value[1].suggestion = poolBefore[1][2]

\* C2: after a decide call that returns a result the pool is empty, however
\* many suggestions had been submitted, and a decide call made right after it
\* returns nothing.
C2_PoolEmptyAfterDecide ==
    /\ []((DecideReturned /\ ret[1].value # None) => candidates = <<>>)
    /\ [][(DecideReturned /\ ret[1].value # None /\ pc' = "decide")
             => (ret'[1].value = None /\ candidates' = <<>>)]_vars

\* C2 witness: decide returned a result on a pool of three suggestions, two
\* of them the same suggestion submitted twice, and the pool is empty.
C2_Witness ==
    /\ DecideReturned
    /\ ret[1].value # None
    /\ Len(poolBefore[1]) = 3
    /\ poolBefore[1][1] = poolBefore[1][2]
    /\ poolBefore[1][3] # poolBefore[1][1]
    /\ candidates = <<>>

\* C3: decide on an empty pool returns nothing and leaves the pool empty and
\* the state as it was.
C3_DecideOnEmptyPool ==
    [][(candidates = <<>> /\ pc' = "decide")
          => (/\ ret'[1].value = None
              /\ candidates' = <<>>
              /\ state' = state)]_vars

\* C3 witness: decide was called on an empty pool and returned nothing.
C3_Witness ==
    /\ DecideReturned
    /\ poolBefore[1] = <<>>
    /\ ret[1].value = None
    /\ candidates = <<>>

----------------------------------------------------------------------------
(* The claims about the tick loop, checked under Spec *)

\* A step of the specification that is one pass of the tick loop.
TickStep == tick' = tick + 1

\* C4: a tick that begins with an action in progress does not invoke the
\* generator, submits nothing to the arbiter, gets no decision, does not ask
\* the acceptance collaborator, and does not overwrite the start time and the
\* expected duration of the running action (it can only clear them, both at
\* once, when the action completes).
C4_NoDecisionWhileInProgress ==
    [][(TickStep /\ focus_block_started # None) =>
          /\ ~lastTick'.invoked
          /\ lastTick'.proposal = None
          /\ lastTick'.submitted = 0
          /\ lastTick'.decision = None
          /\ lastTick'.asked = 0
          /\ ~lastTick'.accepted
          /\ \/ /\ focus_block_started' = focus_block_started
                /\ focus_block_duration_min' = focus_block_duration_min
                /\ suggested_action' = suggested_action
             \/ /\ lastTick'.completed
                /\ focus_block_started' = None
                /\ focus_block_duration_min' = None]_vars

\* C4 witness: a tick began with an action in progress, with the generator's
\* preconditions true of the state, and the action is still running after it.
C4_Witness ==
    /\ tick >= 2
    /\ lastTick.in_progress
    /\ ~lastTick.completed
    /\ focus_block_started # None
    /\ focus_block_started[1] < state.timestamp
    /\ suggest(state) # None

\* The decision that was accepted for the action in progress.
RunningSuggestion == suggested_action[1].suggestion

\* C5: an accepted decision starts an action at the tick's time with the
\* decision's expected duration d; on each later tick the action completes if
\* and only if (now - start) >= d minutes, so at the first such tick and at
\* no earlier one; the completing tick appends exactly one session (type
\* focus, the decision's project and duration, completed, ended at now) and
\* clears the action in progress; no other tick changes recent_sessions.
C5_CompletionAtFirstTickPastDuration ==
    [][TickStep =>
          LET now == state'.timestamp
          IN IF focus_block_started # None
             THEN IF now - focus_block_started[1]
                        >= RunningSuggestion.expected_duration_min * 60
                  THEN /\ state'.recent_sessions =
                             Append(state.recent_sessions,
                                    [type |-> "focus",
                                     project |-> RunningSuggestion.project,
                                     duration_min |->
                                         RunningSuggestion.expected_duration_min,
                                     completed |-> TRUE,
                                     ended_at |-> Some(now)])
                       /\ focus_block_started' = None
                       /\ focus_block_duration_min' = None
                  ELSE /\ state'.recent_sessions = state.recent_sessions
                       /\ focus_block_started' = focus_block_started
                       /\ focus_block_duration_min' = focus_block_duration_min
             ELSE /\ state'.recent_sessions = state.recent_sessions
                  /\ lastTick'.accepted =>
                        /\ focus_block_started' = Some(now)
                        /\ focus_block_duration_min' = Some(
                              lastTick'.decision[1].suggestion.expected_duration_min)
                        /\ suggested_action' = lastTick'.decision]_vars

\* C5 witness: a 15-minute action that started at time 0 completed at the
\* tick of time 900, when exactly 15 minutes had elapsed.
C5_Witness ==
    /\ lastTick.completed
    /\ lastTick.in_progress
    /\ focus_block_started = None
    /\ Len(state.recent_sessions) = 1
    /\ state.recent_sessions[1].duration_min = 15
    /\ state.recent_sessions[1].ended_at = Some(state.timestamp)
    /\ state.timestamp = 900

\* The generator's preconditions as the documentation states them, on the
\* states of the tick loop (every session there has an end timestamp).
GapElapsed(st) ==
    \A i \in 1..Len(st.recent_sessions) :
        st.recent_sessions[i].type = "focus" =>
            st.timestamp - st.recent_sessions[i].ended_at[1] >= 15 * 60

PreconditionsHold(st) ==
    /\ st.mode = "work_deep"
    /\ st.primary_project # None
    /\ st.primary_project # Some("")
    /\ GapElapsed(st)

\* The last tick presented a decision and the answer was no.
Rejected(t) == t.asked = 1 /\ ~t.accepted

\* C6: a tick whose decision is rejected starts no action, leaves
\* recent_sessions as it was, keeps no decision and no pooled suggestion, and
\* asks once; the next tick invokes the generator again, which proposes if
\* its preconditions hold.
C6_RejectionDiscardsDecision ==
    /\ [][(TickStep /\ Rejected(lastTick')) =>
             /\ focus_block_started' = None
             /\ focus_block_duration_min' = None
             /\ suggested_action' = None
             /\ candidates' = <<>>
             /\ state'.recent_sessions = state.recent_sessions
             /\ ~lastTick'.completed]_vars
    /\ [][(TickStep /\ Rejected(lastTick)) =>
             /\ lastTick'.invoked
             /\ PreconditionsHold(state') => lastTick'.proposal # None]_vars

\* C6 witness: two ticks in a row presented a decision that was rejected, and
\* no action is in progress.
C6_Witness ==
    /\ tick = 2
    /\ Rejected(lastTick)
    /\ lastTick.proposal # None
    /\ state.timestamp = SleepSeconds
    /\ focus_block_started = None
    /\ state.recent_sessions = <<>>

----------------------------------------------------------------------------
(* The claims about LifeState and FocusNeuron.suggest, checked under SpecLife *)

\* The end timestamps of the sessions of a type that have one.
EndsOfType(st, session_type) ==
    { st.recent_sessions[i].ended_at[1] :
        i \in { j \in 1..Len(st.recent_sessions) :
                  /\ st.recent_sessions[j].type = session_type
                  /\ st.recent_sessions[j].ended_at # None } }

\* The greatest of them.
LatestEnd(st, session_type) ==
    CHOOSE e \in EndsOfType(st, session_type) :
        \A f \in EndsOfType(st, session_type) : f <= e

\* A direct call of minutes_since_last_session has just returned.
MinutesReturned == pc = "minutes_since_last_session" /\ ret # None

\* A direct call of suggest has just returned.
SuggestReturned == pc = "suggest" /\ ret # None

\* C7: minutes_since_last_session(T) is undefined if and only if no session
\* of type T has an end timestamp; sessions of type T without one are
\* ignored.
C7_UndefinedIffNoEndedSession ==
    MinutesReturned =>
        (ret[1].value = None <=> EndsOfType(state, ret[1].arg) = {})

\* C8: a value returned by minutes_since_last_session(T) is the floor of
\* (timestamp - latest_end) / 60 s, latest_end being the greatest end
\* timestamp among the sessions of type T that have one, and it is not
\* negative when timestamp >= latest_end.
C8_ValueIsFlooredMinutesSinceLatestEnd ==
    (MinutesReturned /\ ret[1].value # None) =>
        /\ EndsOfType(state, ret[1].arg) # {}
        /\ LET v == ret[1].value[1]
               delta == state.timestamp - LatestEnd(state, ret[1].arg)
           IN /\ 60 * v <= delta
              /\ delta < 60 * (v + 1)
              /\ delta >= 0 => v >= 0

\* C8 witness: 899 seconds after the only focus session ended, with a workout
\* session that ended later in the list, the value returned for focus is 14.
C8_Witness ==
    /\ MinutesReturned
    /\ ret[1].arg = "focus"
    /\ ret[1].value = Some(14)
    /\ state.timestamp = 1199
    /\ Len(state.recent_sessions) = 2
    /\ state.recent_sessions[1].type = "focus"
    /\ state.recent_sessions[1].ended_at = Some(300)
    /\ state.recent_sessions[2].type = "workout"
    /\ state.recent_sessions[2].ended_at = Some(900)

\* C9: suggest returns nothing when mode is not "work_deep" or when
\* primary_project is unset, whatever the other fields of the state are.
C9_NoSuggestionWithoutModeOrProject ==
    (SuggestReturned
       /\ (state.mode # "work_deep" \/ state.primary_project = None)) =>
        ret[1].value = None

\* C9 witness: suggest returned nothing in a state without a primary project
\* whose mode is "work_deep", whose energy hint is set and which has no
\* session.
C9_Witness ==
    /\ SuggestReturned
    /\ ret[1].value = None
    /\ state.mode = "work_deep"
    /\ state.primary_project = None
    /\ state.energy_hint = Some("high")
    /\ state.recent_sessions = <<>>

\* C10: with mode "work_deep" and a primary project set, suggest returns a
\* suggestion if and only if the minutes since the last focus session (the
\* whole minutes since the latest end timestamp of a focus session) are
\* undefined or at least the minimum gap of 15; so it returns nothing when a
\* focus session ended 5 minutes ago.
C10_SuggestIffGapElapsed ==
    (SuggestReturned /\ state.mode = "work_deep"
       /\ Truthy(state.primary_project)) =>
        (ret[1].value # None <=>
            \/ EndsOfType(state, "focus") = {}
            \/ (state.timestamp - LatestEnd(state, "focus")) \div 60 >= 15)

\* The preconditions of the focus generator as the documentation states them:
\* deep-work mode, a primary project, and no focus session that ended less
\* than 15 whole minutes ago.
DocumentedPreconditions(st) ==
    /\ st.mode = "work_deep"
    /\ Truthy(st.primary_project)
    /\ \/ EndsOfType(st, "focus") = {}
       \/ (st.timestamp - LatestEnd(st, "focus")) \div 60 >= 15

\* The documented tier of an energy hint: minutes, priority, confidence.
DocumentedTier(hint) ==
    IF hint = Some("low") THEN <<5, "MEDIUM", 70>>
    ELSE IF hint = Some("medium") THEN <<15, "HIGH", 80>>
    ELSE <<25, "HIGH", 85>>

\* The energy hints the documentation names; None is a missing hint.
DocumentedHints ==
    {Some("low"), Some("medium"), Some("high"), Some("unknown"), None}

\* C11: when the preconditions hold suggest returns a suggestion, and a
\* returned suggestion is fixed by energy_hint: low gives 5 minutes, MEDIUM,
\* 0.70; medium gives 15 minutes, HIGH, 0.80; high, unknown or a missing hint
\* gives 25 minutes, HIGH, 0.85; its kind is focus_block, its project the
\* primary project, and its text names that project and that duration.
C11_OutputFixedByEnergyHint ==
    SuggestReturned =>
        /\ DocumentedPreconditions(state) => ret[1].value # None
        /\ ret[1].value # None =>
              LET s == ret[1].value[1]
              IN /\ s.suggestion_type = "focus_block"
                 /\ s.project = state.primary_project
                 /\ s.text.project = state.primary_project[1]
                 /\ s.text.minutes = s.expected_duration_min
                 /\ state.energy_hint \in DocumentedHints =>
                       <<s.expected_duration_min, s.priority, s.confidence>>
                           = DocumentedTier(state.energy_hint)

\* C11 witness: suggest returned the low-energy tier for a state whose gap
\* has just elapsed (a focus session ended 15 minutes ago).
C11_Witness ==
    /\ SuggestReturned
    /\ ret[1].value # None
    /\ state.energy_hint = Some("low")
    /\ ret[1].value[1].expected_duration_min = 5
    /\ ret[1].value[1].priority = "MEDIUM"
    /\ state.timestamp = 900
    /\ Len(state.recent_sessions) = 1
    /\ state.recent_sessions[1].type = "focus"
    /\ state.recent_sessions[1].ended_at = Some(0)

\* The duration suggest gives for the state with another energy hint.
DurationWithHint(st, hint) ==
    suggest([st EXCEPT !.energy_hint = Some(hint)])[1].expected_duration_min

ExceptTickFields(st, other) ==
    [st EXCEPT !.timestamp = other.timestamp,
               !.recent_sessions = other.recent_sessions]

\* C13: recent_sessions is append-only across ticks.  The list before any
\* step is a prefix of the list after it; a tick changes no field of the
\* state but the timestamp and recent_sessions; the list grows by at most one
\* record per tick, and exactly when the tick completed an action, the record
\* being that action's focus session ended at the tick's time.
C13_RecentSessionsAppendOnly ==
    [][LET old == state.recent_sessions
           new == state'.recent_sessions
       IN /\ Len(new) >= Len(old)
          /\ SubSeq(new, 1, Len(old)) = old
          /\ ExceptTickFields(state', state) = state
          /\ TickStep =>
                /\ Len(new) <= Len(old) + 1
                /\ (Len(new) = Len(old) + 1) <=> lastTick'.completed
                /\ Len(new) = Len(old) + 1 =>
                      /\ new[Len(new)].type = "focus"
                      /\ new[Len(new)].project = state.primary_project
                      /\ new[Len(new)].completed
                      /\ new[Len(new)].ended_at = Some(clock)]_vars

\* C13 witness: two sessions were recorded, the first at 300 s, and a later
\* tick has refreshed the timestamp with both still in place.
C13_Witness ==
    /\ pc = "loop"
    /\ Len(state.recent_sessions) = 2
    /\ state.recent_sessions[1].ended_at = Some(300)
    /\ state.recent_sessions[2].ended_at # None
    /\ state.timestamp > state.recent_sessions[2].ended_at[1]
    /\ ~lastTick.completed

C16_RunsUntilDeadlineThenHalts ==
    /\ <>(pc = "done")
    /\ [][TickStep => clock < duration_seconds]_vars
    /\ [](pc = "done" =>
            /\ clock >= duration_seconds
            /\ summary # None
            /\ summary[1] = SelectSeq(state.recent_sessions,
                                      LAMBDA s : s.type = "focus")
            /\ Len(summary[1]) = Len(state.recent_sessions)
            /\ focus_block_started # None =>
                  /\ Len(summary[1]) = accepts - 1
                  /\ \A i \in 1..Len(summary[1]) :
                        summary[1][i].ended_at[1] <= focus_block_started[1])

\* C16 witness: a long run has ended with one recorded session in the
\* summary and a second block, accepted at 1800 s, still in progress.
C16_Witness ==
    /\ pc = "done"
    /\ duration_seconds = MaxDuration
    /\ focus_block_started = Some(1800)
    /\ accepts = 2
    /\ summary # None
    /\ Len(summary[1]) = 1
    /\ summary[1][1].ended_at = Some(900)

\* C17: no suggestion stays in the arbiter from one tick to the next.  The
\* pool is empty between ticks, so the decision of a tick is the suggestion
\* submitted on that same tick and there is a decision only if one was
\* submitted; a tick that began with an action in progress submits nothing
\* and its decide returns nothing.
C17_NoSuggestionPersistsAcrossTicks ==
    /\ candidates = <<>>
    /\ lastTick.submitted <= 1
    /\ (lastTick.decision # None) <=> (lastTick.submitted = 1)
    /\ lastTick.decision # None =>
          /\ lastTick.proposal # None
          /\ lastTick.decision[1].suggestion = lastTick.proposal[1]
          /\ lastTick.decision[1].binding_id[1] = lastTick.at[1]
    /\ lastTick.in_progress =>
          /\ lastTick.submitted = 0
          /\ lastTick.decision = None

\* C17 witness: the second tick began with the block accepted on the first
\* tick in progress; its decide returned nothing and the pool is empty.
C17_Witness ==
    /\ tick = 2
    /\ Len(bindings) = 1
    /\ accepts = 1
    /\ lastTick.in_progress
    /\ lastTick.decision = None
    /\ candidates = <<>>
    /\ focus_block_started = Some(0)

\* The place in the pool of the first suggestion whose key is maximal.
FirstTopRanked(pool) ==
    CHOOSE i \in 1..Len(pool) :
        /\ \A j \in 1..Len(pool) : RanksAtLeast(pool[i], pool[j])
        /\ \A k \in 1..(i - 1) : ~RanksAtLeast(pool[k], pool[i])

\* C18: when several pooled suggestions share the maximal (priority_rank,
\* confidence) key, decide returns the one submitted first; the winner is a
\* function of the sequence of request_action calls.
C18_TiesGoToFirstSubmitted ==
    (DecideReturned /\ poolBefore[1] # <<>>) =>
        /\ ret[1].value # None
        /\ ret[1].value[1].suggestion
              = poolBefore[1][FirstTopRanked(poolBefore[1])]

\* C18 witness: the WalkNeuron and then the FocusNeuron submitted suggestions
\* of the same maximal key, behind a lower-ranked one, and decide returned
\* the WalkNeuron's.
C18_Witness ==
    /\ DecideReturned
    /\ Len(poolBefore[1]) = 3
    /\ poolBefore[1][1].priority = "MEDIUM"
    /\ poolBefore[1][2].priority = "HIGH" /\ poolBefore[1][2].confidence = 90
    /\ poolBefore[1][3].priority = "HIGH" /\ poolBefore[1][3].confidence = 90
    /\ poolBefore[1][2].neuron = "WalkNeuron"
    /\ poolBefore[1][3].neuron = "FocusNeuron"
    /\ ret[1].value # None
    /\ ret[1].value[1].suggestion = poolBefore[1][2]

\* C19: in every state of the tick loop the number of records in
\* recent_sessions is the number of accepted decisions, less one if an action
\* is in progress: each recorded session has its own earlier acceptance and
\* each acceptance is either recorded once or still in progress.
C19_SessionsMatchAcceptances ==
    /\ Len(state.recent_sessions)
          = accepts - (IF focus_block_started # None THEN 1 ELSE 0)
    /\ (focus_block_started # None) <=> (focus_block_duration_min # None)
    /\ \A i \in 1..Len(state.recent_sessions) :
          /\ state.recent_sessions[i].ended_at # None
          /\ \E k \in 1..Len(bindings) :
                bindings[k][1] + state.recent_sessions[i].duration_min * 60
                    <= state.recent_sessions[i].ended_at[1]

\* C19 witness: two decisions were accepted, the first block is recorded and
\* the second is in progress.
C19_Witness ==
    /\ accepts = 2
    /\ Len(state.recent_sessions) = 1
    /\ focus_block_started # None
    /\ focus_block_started[1] > state.recent_sessions[1].ended_at[1]

\* The end of the session recorded last.
LastRecordedEnd(st) == st.recent_sessions[Len(st.recent_sessions)].ended_at[1]

\* C20: consecutive focus blocks are at least the minimum gap apart.  On a
\* tick less than 15 whole minutes after the end e of the last recorded focus
\* session (the tick that recorded it and the one after it included) nothing
\* is proposed, decided, presented or accepted and no block starts; on a tick
\* at or beyond that gap with no block in progress the generator proposes.
C20_MinimumGapBetweenFocusBlocks ==
    /\ [][(TickStep /\ state.recent_sessions # <<>>) =>
            LET whole_minutes == (clock - LastRecordedEnd(state)) \div 60
            IN /\ whole_minutes < 15 =>
                     /\ lastTick'.proposal = None
                     /\ lastTick'.decision = None
                     /\ lastTick'.asked = 0
                     /\ ~lastTick'.accepted
                     /\ focus_block_started' = None
               /\ (whole_minutes >= 15 /\ focus_block_started = None) =>
                     /\ lastTick'.proposal # None
                     /\ lastTick'.decision # None
                     /\ lastTick'.asked = 1]_vars
    /\ [][(TickStep /\ lastTick'.completed) =>
            /\ focus_block_started' = None
            /\ LastRecordedEnd(state') = clock
            /\ lastTick'.accepted => lastTick.completed = FALSE]_vars
    /\ [](\A i \in 1..Len(state.recent_sessions) :
            /\ focus_block_started # None =>
                  focus_block_started[1]
                      >= state.recent_sessions[i].ended_at[1] + 15 * 60
            /\ i > 1 =>
                  state.recent_sessions[i].ended_at[1]
                      >= state.recent_sessions[i - 1].ended_at[1] + 15 * 60)

\* C20 witness: a session ended at 300 s; no tick of the 15 minutes after it
\* got a decision, and the tick at 1200 s, exactly 15 minutes later, proposed
\* again and the block was accepted.
C20_Witness ==
    /\ Len(state.recent_sessions) = 1
    /\ state.recent_sessions[1].ended_at = Some(300)
    /\ lastTick.at = Some(1200)
    /\ lastTick.proposal # None
    /\ lastTick.accepted
    /\ focus_block_started = Some(1200)
    /\ tick = 5
    /\ bindings = << <<0, "focus_block">>, <<1200, "focus_block">> >>

====
